---------------------------- MODULE Spec2Model ----------------------------
(***************************************************************************)
(* A model of femto's dropout GPU code generator (src/funcs/gpu/dropout.rs) *)
(* and of the command-line driver (src/main.rs).                           *)
(*                                                                         *)
(* Tensor elements are f32 in the program; the kernels only copy and add,  *)
(* and the model computes over integers, so float rounding is not          *)
(* modelled.  A buffer is a sequence: element id of the program (0-based)  *)
(* is position id + 1.                                                     *)
(***************************************************************************)
EXTENDS Integers, Sequences, FiniteSets, TLC

VARIABLES
    fg,        \* kernel machine: the GpuFunctionGroup of the operator under test
    dev,       \* kernel machine: device buffers out, a, out_grad, a_grad
    wr,        \* kernel machine: per dispatch, how many threads wrote each index
    launch,    \* kernel machine: the dispatch in flight
    hist,      \* kernel machine: what has been run since the gradients were last set
    ops,       \* name machine: the dropout operator instances built so far
    cache,     \* name machine: compiled kernels, keyed by kernel_name
    fetched,   \* name machine: the last kernel taken from the cache, and for whom
    cmd,       \* driver: the parsed command line (Cli)
    pc,        \* driver: where main is
    disk,      \* driver: the file at the --model path
    gpt,       \* driver: the model's parameters and optimizer state, device and host side
    step,      \* driver: the index of the training step in progress
    stepTrace, \* driver: the phases of that step completed so far
    cb,        \* driver: the training callback's invocation in progress
    result,    \* driver: "running", or how main ended
    load,      \* driver: what loading the checkpoint came to
    generated, \* driver: tokens generated by the infer command so far
    stopped,   \* driver: step, gpt and disk as they were when main ended
    graph,     \* graph machine: the operator nodes in creation order
    grads,     \* graph machine: every tensor's gradient
    bw,        \* graph machine: the backward call in progress, or the last one
    calls,     \* graph machine: backward calls made
    inp,       \* two runs: the inputs both runs are given
    runs       \* two runs: each run's generator, position and generated tokens

kvars == <<fg, dev, wr, launch, hist>>
nvars == <<ops, cache, fetched>>
mvars == <<cmd, pc, disk, gpt, step, stepTrace, cb, result, load, generated, stopped>>
gvars == <<graph, grads, bw, calls>>
rvars == <<inp, runs>>
vars == <<kvars, nvars, mvars, gvars, rvars>>
kRest == <<nvars, mvars, gvars, rvars>>     \* what the kernel machine never touches
nRest == <<kvars, mvars, gvars, rvars>>     \* what the name machine never touches
mRest == <<kvars, nvars, gvars, rvars>>     \* what the driver never touches
gRest == <<kvars, nvars, mvars, rvars>>     \* what the graph machine never touches
rRest == <<kvars, nvars, mvars, gvars>>     \* what the two runs never touch

(***************************************************************************)
(* Bounds of the model.                                                    *)
(***************************************************************************)
MaxDim == 2           \* small shapes: every dimension in 1..MaxDim
MaxExtraGroups == 1   \* work-groups dispatched beyond the rounded-up size
MaxBackward == 2      \* backward dispatches in one behaviour
MaxTensorId == 1      \* one-digit tensor ids 0..MaxTensorId (longer ids are listed)
MaxSteps == 2         \* training steps run (the program runs 100000)
MaxCount == 2         \* --count of the infer command
MaxNodes == 3         \* operator nodes of a graph
MaxCalls == 2         \* backward calls in one behaviour
MaxEntropy == 3       \* seeds 0..MaxEntropy the operating system may hand out
MaxOps == 2           \* operator instances in one graph

(***************************************************************************)
(* Program constants.                                                      *)
(***************************************************************************)
LocalWorkSize == 32          \* local_work_size: 32

(***************************************************************************)
(* format!("{}", n) of a usize: decimal, no sign, no leading zeros.        *)
(***************************************************************************)
DigitChar(d) ==
    CASE d = 0 -> "0" [] d = 1 -> "1" [] d = 2 -> "2" [] d = 3 -> "3"
      [] d = 4 -> "4" [] d = 5 -> "5" [] d = 6 -> "6" [] d = 7 -> "7"
      [] d = 8 -> "8" [] d = 9 -> "9"

RECURSIVE FormatUsize(_)
FormatUsize(n) ==
    IF n < 10 THEN DigitChar(n)
    ELSE FormatUsize(n \div 10) \o DigitChar(n % 10)

(***************************************************************************)
(* let works = inps[0].iter().fold(1, |a, b| a * b);                       *)
(***************************************************************************)
RECURSIVE Works(_)
Works(shape) ==
    IF shape = <<>> THEN 1
    ELSE Works(SubSeq(shape, 1, Len(shape) - 1)) * shape[Len(shape)]

(***************************************************************************)
(* The two kernel sources.  A source text is the format! template with its *)
(* holes filled: decl is the kernel function name written after            *)
(* `__kernel void`, guard the literal the thread id is compared with, stmt *)
(* the guarded statement `dst[id] op src[id]`, params the buffer           *)
(* parameters in order.                                                    *)
(***************************************************************************)
(* Faulty variants of the forward source: `+=` for `=`, `<=` for `<`. *)
ForwardSourceAccumulating(out_id, works) ==
    [decl |-> "calc_" \o FormatUsize(out_id),
     params |-> <<"out", "a">>,
     guard |-> works,
     stmt |-> [dst |-> "out", op |-> "+=", src |-> "a"]]

ForwardSourceOffByOne(out_id, works) ==
    [decl |-> "calc_" \o FormatUsize(out_id),
     params |-> <<"out", "a">>,
     guard |-> works + 1,
     stmt |-> [dst |-> "out", op |-> "=", src |-> "a"]]

ForwardSource(out_id, works) ==
    [decl |-> "calc_" \o FormatUsize(out_id),
     params |-> <<"out", "a">>,
     guard |-> works,
     stmt |-> [dst |-> "out", op |-> "=", src |-> "a"]]

(* Faulty variants of the backward source: `=` for `+=`, out for out_grad. *)
BackwardSourceOverwriting(out_id, works) ==
    [decl |-> "grad_" \o FormatUsize(out_id),
     params |-> <<"out", "out_grad", "a", "a_grad">>,
     guard |-> works,
     stmt |-> [dst |-> "a_grad", op |-> "=", src |-> "out_grad"]]

BackwardSourceFromOut(out_id, works) ==
    [decl |-> "grad_" \o FormatUsize(out_id),
     params |-> <<"out", "out_grad", "a", "a_grad">>,
     guard |-> works,
     stmt |-> [dst |-> "a_grad", op |-> "+=", src |-> "out"]]

BackwardSource(out_id, works) ==
    [decl |-> "grad_" \o FormatUsize(out_id),
     params |-> <<"out", "out_grad", "a", "a_grad">>,
     guard |-> works,
     stmt |-> [dst |-> "a_grad", op |-> "+=", src |-> "out_grad"]]

ForwardKernelName(out_id) == "calc_" \o FormatUsize(out_id)

(* Faulty variant: the forward prefix copied into the backward name. *)
BackwardKernelNameCopied(out_id) == "calc_" \o FormatUsize(out_id)

BackwardKernelName(out_id) == "grad_" \o FormatUsize(out_id)

(***************************************************************************)
(* pub fn gpu_impl(out_id: TensorId, inps: &[Vec<usize>]) -> GpuFunctionGroup *)
(***************************************************************************)
gpu_impl(out_id, inps) ==
    LET works == Works(inps[1])
    IN  [forward_funcs |->
            <<[source_code |-> ForwardSource(out_id, works),
               kernel_name |-> ForwardKernelName(out_id),
               local_work_size |-> LocalWorkSize,
               global_work_size |-> works]>>,
         backward_funcs |->
            <<[source_code |-> BackwardSource(out_id, works),
               kernel_name |-> BackwardKernelName(out_id),
               local_work_size |-> LocalWorkSize,
               global_work_size |-> works]>>,
         shared_buffers |-> <<>>]

(***************************************************************************)
(* Execution of a generated kernel.  One device thread runs                *)
(*     uint id = get_global_id(0); if(id < guard) { dst[id] op src[id]; }  *)
(* Buffers hold exactly the tensor's elements; an access outside a buffer  *)
(* does not change it and reads 0, and is counted in wr like any other     *)
(* write, so that it can be observed.                                      *)
(***************************************************************************)
Load(buf, id) == IF id + 1 \in DOMAIN buf THEN buf[id + 1] ELSE 0

Store(buf, id, v) == IF id + 1 \in DOMAIN buf THEN [buf EXCEPT ![id + 1] = v] ELSE buf

Counted(w, id) == IF id + 1 \in DOMAIN w THEN [w EXCEPT ![id + 1] = @ + 1] ELSE w

ExecStmt(stmt, id, s) ==
    LET old == Load(s.dev[stmt.dst], id)
        rhs == Load(s.dev[stmt.src], id)
        val == IF stmt.op = "+=" THEN old + rhs ELSE rhs
    IN  [dev |-> [s.dev EXCEPT ![stmt.dst] = Store(@, id, val)],
         wr  |-> [s.wr EXCEPT ![stmt.dst] = Counted(@, id)]]

(* `uint id` is a 32-bit value; the dispatches of the model stay far below *)
(* 2^32 threads, where id is the global id itself.                         *)
Thread(src, gid, s) ==
    LET id == gid
    IN  IF id < src.guard THEN ExecStmt(src.stmt, id, s) ELSE s

(* The threads gid..last of one work-group.  Each thread touches only the  *)
(* element of its own id, so the order inside the group does not matter;   *)
(* wr records it if that ever fails.                                       *)
RECURSIVE RunThreads(_, _, _, _)
RunThreads(src, gid, last, s) ==
    IF gid > last THEN s
    ELSE RunThreads(src, gid + 1, last, Thread(src, gid, s))

(***************************************************************************)
(* The dispatcher rounds global_work_size up to a multiple of              *)
(* local_work_size; the kernels must tolerate any such padding.            *)
(***************************************************************************)
RoundUp(n, m) == ((n + m - 1) \div m) * m

DispatchSize(fn, extra) ==
    RoundUp(fn.global_work_size, fn.local_work_size) + extra * fn.local_work_size

Zeros(n) == [i \in 1..n |-> 0]

(***************************************************************************)
(* Inputs of the kernel machine.                                           *)
(***************************************************************************)
SmallShapes ==
    UNION {[1..r -> 1..MaxDim] : r \in 1..2}

PaddingShapes == {<<31>>, <<4, 8>>, <<33>>}

Shapes == SmallShapes \cup PaddingShapes

Bases == {0, 1}

Slopes == {0, 1}

Vectors(n) == {[i \in 1..n |-> c + p * (i - 1)] : c \in Bases, p \in Slopes}

Gradients(n) == {[i \in 1..n |-> 1 + p * (i - 1)] : p \in Slopes}

Constants(n) == {[i \in 1..n |-> c] : c \in Bases}

OperatorIds == {1}

Idle == [kernel |-> "none", kind |-> "none", src |-> <<>>, global |-> 0, pending |-> {}]

N == Works(dev.a_shape)

RunsOff ==
    /\ inp = <<>> /\ runs = <<>>

GraphOff ==
    /\ graph = <<>> /\ grads = <<>> /\ bw = <<>> /\ calls = 0

MainOff ==
    /\ cmd = <<>> /\ pc = "off" /\ disk = <<>> /\ gpt = <<>> /\ step = 0
    /\ stepTrace = <<>> /\ cb = <<>> /\ result = "off" /\ load = "none"
    /\ generated = 0 /\ stopped = <<>>

NamesOff ==
    /\ ops = {} /\ cache = <<>> /\ fetched = <<>>

KernelOff ==
    /\ fg = <<>> /\ dev = <<>> /\ wr = <<>> /\ launch = Idle /\ hist = <<>>

InitKernel ==
    /\ \E shape \in Shapes, id \in OperatorIds :
         /\ fg = gpu_impl(id, <<shape>>)
         /\ \E va \in Vectors(Works(shape)), stale \in Constants(Works(shape)) :
              dev = [a_shape |-> shape, a |-> va, out |-> stale,
                     out_grad |-> Zeros(Works(shape)), a_grad |-> stale]
    /\ wr = [out |-> <<>>, a_grad |-> <<>>]
    /\ launch = Idle
    /\ hist = [fwd |-> FALSE, zeroed |-> FALSE, base |-> dev.a_grad,
               backs |-> <<>>, total |-> 0]
    /\ NamesOff /\ MainOff /\ GraphOff /\ RunsOff

Dispatch(fn, kind, extra) ==
    LET G == DispatchSize(fn, extra)
    IN  /\ launch' = [kernel |-> fn.kernel_name, kind |-> kind,
                      src |-> fn.source_code, global |-> G,
                      pending |-> 0..((G \div fn.local_work_size) - 1)]
        /\ wr' = [out |-> Zeros(G), a_grad |-> Zeros(G)]

LaunchForward ==
    /\ launch.kernel = "none"
    /\ \E extra \in 0..MaxExtraGroups : Dispatch(fg.forward_funcs[1], "forward", extra)
    /\ UNCHANGED <<fg, dev, hist, kRest>>

(* The consumer of the output has left its gradient in out_grad. *)
LaunchBackward ==
    /\ launch.kernel = "none"
    /\ hist.total < MaxBackward
    /\ \E g \in Gradients(N) : dev' = [dev EXCEPT !.out_grad = g]
    /\ \E extra \in 0..MaxExtraGroups : Dispatch(fg.backward_funcs[1], "backward", extra)
    /\ UNCHANGED <<fg, hist, kRest>>

RunGroup ==
    /\ launch.kernel # "none"
    /\ \E g \in launch.pending :
         LET first == g * LocalWorkSize
             s == RunThreads(launch.src, first, first + LocalWorkSize - 1,
                             [dev |-> dev, wr |-> wr])
         IN  /\ dev' = s.dev
             /\ wr' = s.wr
             /\ launch' = [launch EXCEPT !.pending = @ \ {g}]
    /\ UNCHANGED <<fg, hist, kRest>>

Finish ==
    /\ launch.kernel # "none"
    /\ launch.pending = {}
    /\ launch' = Idle
    /\ hist' = IF launch.kind = "forward"
               THEN [hist EXCEPT !.fwd = TRUE]
               ELSE [hist EXCEPT !.backs = Append(@, dev.out_grad), !.total = @ + 1]
    /\ wr' = [out |-> <<>>, a_grad |-> <<>>]
    /\ UNCHANGED <<fg, dev, kRest>>

(* zero_grad(): clears every tensor's gradient buffer. *)
ZeroGrad ==
    /\ launch.kernel = "none"
    /\ dev' = [dev EXCEPT !.a_grad = Zeros(N), !.out_grad = Zeros(N)]
    /\ hist' = [hist EXCEPT !.zeroed = TRUE, !.base = Zeros(N), !.backs = <<>>]
    /\ UNCHANGED <<fg, wr, launch, kRest>>

NextKernel ==
    \/ LaunchForward
    \/ LaunchBackward
    \/ RunGroup
    \/ Finish
    \/ ZeroGrad

(***************************************************************************)
(* The name machine: operator instances are built with gpu_impl, each on   *)
(* a fresh output tensor; the device backend compiles a kernel on first    *)
(* use and caches it under its kernel_name.                                *)
(***************************************************************************)
TensorIds == (0..MaxTensorId) \cup {10, 101}

OpShapes == {<<2>>, <<2, 2>>}

Directions == {"forward", "backward"}

KernelOf(op, dir) ==
    IF dir = "forward" THEN op.group.forward_funcs[1] ELSE op.group.backward_funcs[1]

(* The kernel function a source text declares: the name after `__kernel void`. *)
DeclaredName(source_code) == source_code.decl

InitNames ==
    /\ ops = {}
    /\ cache = [name \in {} |-> <<>>]
    /\ fetched = <<>>
    /\ KernelOff /\ MainOff /\ GraphOff /\ RunsOff

BuildOperator ==
    /\ Cardinality(ops) < MaxOps
    /\ \E id \in TensorIds \ {o.out_id : o \in ops}, shape \in OpShapes :
         ops' = ops \cup {[out_id |-> id, group |-> gpu_impl(id, <<shape>>)]}
    /\ UNCHANGED <<cache, fetched, nRest>>

UseKernel ==
    \E op \in ops, dir \in Directions :
        LET fn == KernelOf(op, dir)
            compiled == IF fn.kernel_name \in DOMAIN cache
                        THEN cache
                        ELSE [name \in DOMAIN cache \cup {fn.kernel_name} |->
                                 IF name = fn.kernel_name THEN fn.source_code
                                 ELSE cache[name]]
        IN  /\ cache' = compiled
            /\ fetched' = [out_id |-> op.out_id, dir |-> dir,
                           program |-> compiled[fn.kernel_name]]
            /\ UNCHANGED <<ops, nRest>>

NextNames ==
    \/ BuildOperator
    \/ UseKernel

SpecKernel == InitKernel /\ [][NextKernel]_vars

SpecNames == InitNames /\ [][NextNames]_vars

(***************************************************************************)
(* The driver: main() of src/main.rs.  GPT's methods are not in these      *)
(* sources; what the driver needs of them is modelled from the             *)
(* specification and kept abstract: a model state is a pair (params, opt)  *)
(* of numbers, params standing for every parameter tensor and opt for the  *)
(* optimizer's auxiliary state, and a layout names the parameter shapes    *)
(* and their order.                                                        *)
(***************************************************************************)
LiveLayout == "batch32-tokens64-embed64-layers4-heads4"

OtherLayout == "another-model"

NoState == [layout |-> "none", params |-> 0, opt |-> 0]

NoDisk == [is_file |-> FALSE, bytes |-> <<>>]

StoredStates ==
    {[layout |-> LiveLayout, params |-> 5, opt |-> 3],
     [layout |-> OtherLayout, params |-> 7, opt |-> 4]}

(* bincode::serialize / bincode::deserialize of a TrainingState; a file    *)
(* cut short does not deserialize.                                         *)
Serialize(ts) == <<ts.layout, ts.params, ts.opt>>

Deserialize(bytes) ==
    IF Len(bytes) = 3
    THEN [ok |-> TRUE, ts |-> [layout |-> bytes[1], params |-> bytes[2], opt |-> bytes[3]]]
    ELSE [ok |-> FALSE, ts |-> NoState]

(* gpt.set_training_state(ts, strict): all or nothing. *)
SetTrainingState(g, ts, strict) ==
    IF strict /\ ts.layout # LiveLayout
    THEN [ok |-> FALSE, err |-> "CheckpointMismatch", gpt |-> g]
    ELSE [ok |-> TRUE, err |-> "none",
          gpt |-> [g EXCEPT !.host = [params |-> ts.params, opt |-> ts.opt],
                            !.dev = [params |-> ts.params, opt |-> ts.opt]]]

(* gpt.get_training_state(): reads the host side. *)
GetTrainingState(g) ==
    [layout |-> LiveLayout, params |-> g.host.params, opt |-> g.host.opt]

(* gpt.sync(): brings the host side up to date with the device. *)
Sync(g) == [g EXCEPT !.host = g.dev]

(* The learning-rate closure, in units of 1e-8. *)
BaseLr == 100000
MinLr == 1000
WarmupSteps == 100
DecaySteps == 50000

Max(x, y) == IF x >= y THEN x ELSE y

LearningRate(i) ==
    IF i < WarmupSteps
    THEN (BaseLr \div WarmupSteps) * i
    ELSE Max(MinLr, BaseLr - ((BaseLr - MinLr) * (i - WarmupSteps)) \div DecaySteps)

(* `gpt.set_training_state(ts, true)?` in the train and the infer arm. *)
(* TrainAfterLoadIgnoringError: the faulty variant without the `?`. *)
TrainAfterLoadIgnoringError(ok) == "go"

TrainAfterLoad(ok) == IF ok THEN "go" ELSE "err"

InferAfterLoad(ok) == IF ok THEN "go" ELSE "err"

(* The callback closure: its fallible calls in program order, and what a   *)
(* failure of each does: `?` returns the error, unwrap/expect panic.       *)
(* Faulty variants: the file written before the state is read back; the   *)
(* error of infer dropped.                                                 *)
CallbackOrderWriteFirst == <<"infer", "write", "sync", "get_training_state", "serialize">>

CallbackOrder == <<"infer", "sync", "get_training_state", "serialize", "write">>

CallbackFailureSwallowed(op) == IF op = "infer" THEN "continue" ELSE "panic"

CallbackFailure(op) == IF op = "infer" THEN "err" ELSE "panic"

(* One training step of GPT::train / train_cpu, and what it does when a    *)
(* phase fails.                                                            *)
StepOrder ==
    <<"sample", "zero_grad", "forward", "loss", "backward", "optimizer", "callback">>

FalliblePhases == {"forward", "backward", "optimizer"}

TrainOnFailure == "err"

CbIdle == [done |-> <<>>, failed |-> "none", diskAtStart |-> NoDisk,
           ts |-> NoState, bytes |-> <<>>]

InitMain ==
    /\ cmd \in {[name |-> "train", count |-> 0]}
               \cup {[name |-> "infer", count |-> c] : c \in 0..MaxCount}
    /\ disk \in {NoDisk, [is_file |-> TRUE, bytes |-> <<>>]}
                \cup {[is_file |-> TRUE, bytes |-> Serialize(ts)] : ts \in StoredStates}
    /\ pc = "new"
    /\ gpt = [dev |-> [params |-> 0, opt |-> 0], host |-> [params |-> 0, opt |-> 0], lr |-> 0]
    /\ step = 0
    /\ stepTrace = <<>>
    /\ cb = CbIdle
    /\ result = "running"
    /\ load = "none"
    /\ generated = 0
    /\ stopped = <<>>
    /\ KernelOff /\ NamesOff /\ GraphOff /\ RunsOff

Stop(how, g, d) ==
    /\ result' = how
    /\ stopped' = [step |-> step, gpt |-> g, disk |-> d]

(* GPT::new(...)? *)
NewGpt ==
    /\ result = "running" /\ pc = "new"
    /\ \/ pc' = "sync" /\ UNCHANGED <<result, stopped>>
       \/ pc' = pc /\ Stop("err", gpt, disk)
    /\ UNCHANGED <<cmd, disk, gpt, step, stepTrace, cb, load, generated, mRest>>

(* gpt.sync()? *)
SyncGpt ==
    /\ result = "running" /\ pc = "sync"
    /\ \/ pc' = "load" /\ gpt' = Sync(gpt) /\ UNCHANGED <<result, stopped>>
       \/ pc' = pc /\ gpt' = gpt /\ Stop("err", gpt, disk)
    /\ UNCHANGED <<cmd, disk, step, stepTrace, cb, load, generated, mRest>>

(* Train: if training_state_path.is_file() { open, read, deserialize,      *)
(* set_training_state(ts, true)? }.  Infer: the same without the test.     *)
LoadState ==
    /\ result = "running" /\ pc = "load"
    /\ LET next == IF cmd.name = "train" THEN "train" ELSE "infer"
           de == Deserialize(disk.bytes)
           set == SetTrainingState(gpt, de.ts, TRUE)
           after == IF cmd.name = "train" THEN TrainAfterLoad(set.ok)
                    ELSE InferAfterLoad(set.ok)
       IN  IF ~disk.is_file
           THEN IF cmd.name = "train"
                THEN /\ load' = "skipped" /\ pc' = next
                     /\ UNCHANGED <<gpt, result, stopped>>
                ELSE /\ load' = "missing" /\ pc' = pc /\ gpt' = gpt
                     /\ Stop("panic", gpt, disk)
           ELSE IF ~de.ok
           THEN /\ load' = "corrupt" /\ pc' = pc /\ gpt' = gpt
                /\ Stop("panic", gpt, disk)
           ELSE /\ load' = (IF set.ok THEN "ok" ELSE set.err)
                /\ gpt' = set.gpt
                /\ IF after = "go"
                   THEN pc' = next /\ UNCHANGED <<result, stopped>>
                   ELSE pc' = pc /\ Stop(after, set.gpt, disk)
    /\ UNCHANGED <<cmd, disk, step, stepTrace, cb, generated, mRest>>

NextPhase == StepOrder[Len(stepTrace) + 1]

PhaseEffect(phase, g) ==
    IF phase = "optimizer"
    THEN [g EXCEPT !.dev = [params |-> @.params + 1, opt |-> @.opt + 1],
                   !.lr = LearningRate(step)]
    ELSE g

TrainPhase ==
    /\ result = "running" /\ pc = "train" /\ step < MaxSteps
    /\ Len(stepTrace) < Len(StepOrder) /\ NextPhase # "callback"
    /\ stepTrace' = Append(stepTrace, NextPhase)
    /\ gpt' = PhaseEffect(NextPhase, gpt)
    /\ UNCHANGED <<cmd, pc, disk, step, cb, result, load, generated, stopped, mRest>>

TrainPhaseFails ==
    /\ result = "running" /\ pc = "train" /\ step < MaxSteps
    /\ Len(stepTrace) < Len(StepOrder) /\ NextPhase \in FalliblePhases
    /\ IF TrainOnFailure = "err"
       THEN Stop("err", gpt, disk) /\ UNCHANGED stepTrace
       ELSE stepTrace' = Append(stepTrace, NextPhase) /\ UNCHANGED <<result, stopped>>
    /\ UNCHANGED <<cmd, pc, disk, gpt, step, cb, load, generated, mRest>>

EnterCallback ==
    /\ result = "running" /\ pc = "train" /\ step < MaxSteps
    /\ Len(stepTrace) < Len(StepOrder) /\ NextPhase = "callback"
    /\ pc' = "callback"
    /\ cb' = [CbIdle EXCEPT !.diskAtStart = disk]
    /\ UNCHANGED <<cmd, disk, gpt, step, stepTrace, result, load, generated, stopped, mRest>>

NextCall == CallbackOrder[Len(cb.done) + 1]

CallbackCall ==
    /\ result = "running" /\ pc = "callback" /\ Len(cb.done) < Len(CallbackOrder)
    /\ LET op == NextCall
       IN  /\ gpt' = IF op = "sync" THEN Sync(gpt) ELSE gpt
           /\ cb' = [cb EXCEPT !.done = Append(@, op),
                               !.ts = IF op = "get_training_state"
                                      THEN GetTrainingState(gpt) ELSE @,
                               !.bytes = IF op = "serialize" THEN Serialize(cb.ts) ELSE @]
           /\ disk' = IF op = "write" THEN [is_file |-> TRUE, bytes |-> cb.bytes] ELSE disk
    /\ UNCHANGED <<cmd, pc, step, stepTrace, result, load, generated, stopped, mRest>>

(* A failing fs::write may have created or truncated the file already. *)
CallbackCallFails ==
    /\ result = "running" /\ pc = "callback" /\ Len(cb.done) < Len(CallbackOrder)
    /\ LET op == NextCall
       IN  /\ \E d \in IF op = "write"
                        THEN {disk, [is_file |-> TRUE, bytes |-> <<>>],
                              [is_file |-> TRUE, bytes |-> SubSeq(cb.bytes, 1, 1)]}
                        ELSE {disk} :
                /\ disk' = d
                /\ IF CallbackFailure(op) = "continue"
                   THEN /\ cb' = [cb EXCEPT !.failed = op, !.done = Append(@, op)]
                        /\ UNCHANGED <<result, stopped>>
                   ELSE /\ cb' = [cb EXCEPT !.failed = op]
                        /\ Stop(CallbackFailure(op), gpt, d)
    /\ UNCHANGED <<cmd, pc, gpt, step, stepTrace, load, generated, mRest>>

CallbackReturns ==
    /\ result = "running" /\ pc = "callback" /\ Len(cb.done) = Len(CallbackOrder)
    /\ pc' = "train"
    /\ stepTrace' = Append(stepTrace, "callback")
    /\ UNCHANGED <<cmd, disk, gpt, step, cb, result, load, generated, stopped, mRest>>

(* The callback is optional: a step ends after the optimizer or after it. *)
EndStep ==
    /\ result = "running" /\ pc = "train" /\ step < MaxSteps
    /\ stepTrace # <<>>
    /\ stepTrace[Len(stepTrace)] \in {"optimizer", "callback"}
    /\ Len(stepTrace) >= Len(StepOrder) - 1
    /\ step' = step + 1
    /\ stepTrace' = <<>>
    /\ cb' = CbIdle
    /\ UNCHANGED <<cmd, pc, disk, gpt, result, load, generated, stopped, mRest>>

TrainReturns ==
    /\ result = "running" /\ pc = "train" /\ step = MaxSteps
    /\ pc' = "done"
    /\ Stop("ok", gpt, disk)
    /\ UNCHANGED <<cmd, disk, gpt, step, stepTrace, cb, load, generated, mRest>>

(* gpt.infer(&mut rng, prompt, count, temperature, |_ch| {})? *)
InferToken ==
    /\ result = "running" /\ pc = "infer" /\ generated < cmd.count
    /\ \/ generated' = generated + 1 /\ UNCHANGED <<result, stopped>>
       \/ generated' = generated /\ Stop("err", gpt, disk)
    /\ UNCHANGED <<cmd, pc, disk, gpt, step, stepTrace, cb, load, mRest>>

InferReturns ==
    /\ result = "running" /\ pc = "infer" /\ generated = cmd.count
    /\ pc' = "done"
    /\ Stop("ok", gpt, disk)
    /\ UNCHANGED <<cmd, disk, gpt, step, stepTrace, cb, load, generated, mRest>>

NextMain ==
    \/ NewGpt
    \/ SyncGpt
    \/ LoadState
    \/ TrainPhase
    \/ TrainPhaseFails
    \/ EnterCallback
    \/ CallbackCall
    \/ CallbackCallFails
    \/ CallbackReturns
    \/ EndStep
    \/ TrainReturns
    \/ InferToken
    \/ InferReturns

SpecMain == InitMain /\ [][NextMain]_vars

(***************************************************************************)
(* The graph machine: backward(loss, limit) over a graph of scalar         *)
(* tensors.  Tensor 0 is a leaf; node j, the j-th created, writes tensor   *)
(* j; the loss is the last node's output.  A dropout node reads the        *)
(* latest tensor and propagates with its generated grad kernel; an add     *)
(* node reads an earlier tensor and the latest one (a residual             *)
(* connection).  Creation order is a topological order.                    *)
(***************************************************************************)
None == [some |-> FALSE, n |-> 0]

Some(k) == [some |-> TRUE, n |-> k]

(* The `None` the driver passes for the backward limit. *)
TrainLimit == None

Limits == {TrainLimit} \cup {Some(k) : k \in 0..(MaxNodes + 1)}

NodeChoices(j) ==
    {[kind |-> "dropout", inps |-> <<j - 1>>, out |-> j]}
        \cup {[kind |-> "add", inps |-> <<x, j - 1>>, out |-> j] : x \in 0..(j - 1)}

Graphs ==
    UNION {{g \in [1..m -> UNION {NodeChoices(j) : j \in 1..m}] :
                \A j \in 1..m : g[j] \in NodeChoices(j)} : m \in 1..MaxNodes}

M == Len(graph)

(* The backward rule of one node: accumulate into the inputs' gradients. *)
DropoutBackward(node, gr) ==
    LET src == gpu_impl(node.out, << <<1>> >>).backward_funcs[1].source_code
        s == Thread(src, 0,
                    [dev |-> [out |-> <<0>>, a |-> <<0>>,
                              out_grad |-> <<gr[node.out]>>,
                              a_grad |-> <<gr[node.inps[1]]>>],
                     wr |-> [out |-> <<0>>, a_grad |-> <<0>>]])
    IN  [gr EXCEPT ![node.inps[1]] = s.dev.a_grad[1]]

AddBackward(node, gr) ==
    LET g1 == [gr EXCEPT ![node.inps[1]] = @ + gr[node.out]]
    IN  [g1 EXCEPT ![node.inps[2]] = @ + gr[node.out]]

BackwardRule(node, gr) ==
    IF node.kind = "dropout" THEN DropoutBackward(node, gr) ELSE AddBackward(node, gr)

(* Visitation stops once `limit` nodes have had their backward rule        *)
(* invoked (LimitReachedOffByOne: the faulty variant that visits one more). *)
LimitReachedOffByOne(limit, visited) == limit.some /\ visited > limit.n

LimitReached(limit, visited) == limit.some /\ visited >= limit.n

NoCall == [active |-> FALSE, limit |-> None, invoked |-> <<>>, before |-> <<>>]

InitGraph ==
    /\ graph \in Graphs
    /\ grads = [t \in 0..Len(graph) |-> 0]
    /\ bw = NoCall
    /\ calls = 0
    /\ KernelOff /\ NamesOff /\ MainOff /\ RunsOff

ZeroGradAll ==
    /\ ~bw.active
    /\ grads' = [t \in 0..M |-> 0]
    /\ bw' = NoCall
    /\ UNCHANGED <<graph, calls, gRest>>

(* backward(loss, limit): seed the loss gradient with 1. *)
StartBackward ==
    /\ ~bw.active /\ calls < MaxCalls
    /\ \E limit \in Limits :
         bw' = [active |-> TRUE, limit |-> limit, invoked |-> <<>>, before |-> grads]
    /\ grads' = [grads EXCEPT ![M] = 1]
    /\ calls' = calls + 1
    /\ UNCHANGED <<graph, gRest>>

VisitNode ==
    /\ bw.active
    /\ Len(bw.invoked) < M
    /\ ~LimitReached(bw.limit, Len(bw.invoked))
    /\ LET j == M - Len(bw.invoked)
       IN  /\ grads' = BackwardRule(graph[j], grads)
           /\ bw' = [bw EXCEPT !.invoked = Append(@, j)]
    /\ UNCHANGED <<graph, calls, gRest>>

BackwardReturns ==
    /\ bw.active
    /\ Len(bw.invoked) = M \/ LimitReached(bw.limit, Len(bw.invoked))
    /\ bw' = [bw EXCEPT !.active = FALSE]
    /\ UNCHANGED <<graph, grads, calls, gRest>>

NextGraph ==
    \/ ZeroGradAll
    \/ StartBackward
    \/ VisitNode
    \/ BackwardReturns

SpecGraph == InitGraph /\ [][NextGraph]_vars

(***************************************************************************)
(* Two runs of the same inference: the infer command, or the inference of  *)
(* the training callback, started twice on the same model state, prompt,   *)
(* count and temperature.  Each run makes its generator with               *)
(* rand::thread_rng(), which the operating system seeds; the command line  *)
(* has no seed.  Sampling is modelled from the specification over a        *)
(* two-token vocabulary: the likelier token is drawn with probability 3/4  *)
(* at temperature 0.5 and 2/4 at temperature 1.0.                          *)
(***************************************************************************)
Entropy == 0..MaxEntropy

(* let mut rng = rand::thread_rng(); *)
ThreadRng == Entropy

RngNext(state) == (5 * state + 3) % 8

RngDraw(state) == state % 4

SampleToken(model, last, temperature, u) ==
    LET likely == (model + last) % 2
        share == IF temperature <= 5 THEN 3 ELSE 2
    IN  IF u < share THEN likely ELSE 1 - likely

RunIds == {"first", "second"}

InitRuns ==
    /\ inp \in {[site |-> "callback", model |-> m, prompt |-> <<0>>, count |-> 100,
                  temperature |-> 5] : m \in {0, 1}}
               \cup {[site |-> "infer", model |-> m, prompt |-> <<t>>, count |-> c,
                      temperature |-> temp] :
                        m \in {0, 1}, t \in {0, 1}, c \in 1..MaxCount, temp \in {5, 10}}
    /\ runs = [r \in RunIds |-> [pc |-> "start", rng |-> 0, out |-> <<>>]]
    /\ KernelOff /\ NamesOff /\ MainOff /\ GraphOff

StartRun ==
    \E r \in RunIds, seed \in ThreadRng :
        /\ runs[r].pc = "start"
        /\ runs' = [runs EXCEPT ![r] = [pc |-> "infer", rng |-> seed, out |-> inp.prompt]]
        /\ UNCHANGED <<inp, rRest>>

(* The model follows the first MaxCount generated tokens of a run. *)
Wanted == Len(inp.prompt) + (IF inp.count <= MaxCount THEN inp.count ELSE MaxCount)

GenerateToken ==
    \E r \in RunIds :
        /\ runs[r].pc = "infer"
        /\ Len(runs[r].out) < Wanted
        /\ LET run == runs[r]
               tok == SampleToken(inp.model, run.out[Len(run.out)], inp.temperature,
                                  RngDraw(run.rng))
           IN  runs' = [runs EXCEPT ![r] = [pc |-> "infer", rng |-> RngNext(run.rng),
                                           out |-> Append(run.out, tok)]]
        /\ UNCHANGED <<inp, rRest>>

PrintRun ==
    \E r \in RunIds :
        /\ runs[r].pc = "infer"
        /\ Len(runs[r].out) = Wanted
        /\ runs' = [runs EXCEPT ![r].pc = "done"]
        /\ UNCHANGED <<inp, rRest>>

NextRuns ==
    \/ StartRun
    \/ GenerateToken
    \/ PrintRun

SpecRuns == InitRuns /\ [][NextRuns]_vars

(***************************************************************************)
(* Properties of the kernel machine.                                       *)
(***************************************************************************)
RECURSIVE SumAt(_, _)
SumAt(gs, i) == IF gs = <<>> THEN 0 ELSE gs[1][i] + SumAt(Tail(gs), i)

IdleNow == launch.kernel = "none"

GroupRan(i) == ((i - 1) \div LocalWorkSize) \notin launch.pending

(* C1: dropout forward is the identity.  Once the forward kernel has run,  *)
(* out[i] = a[i] for every i < n; input [1,2,3,4] gives output [1,2,3,4],  *)
(* and a following backward with output gradient [1,1,1,1] on a zeroed     *)
(* input gradient gives input gradient [1,1,1,1].                          *)
C1_ForwardIdentity ==
    /\ (launch.kind = "forward") =>
          \A i \in 1..N : GroupRan(i) => dev.out[i] = dev.a[i]
    /\ (IdleNow /\ hist.fwd) =>
          /\ Len(dev.out) = N
          /\ \A i \in 1..N : dev.out[i] = dev.a[i]
    /\ (IdleNow /\ hist.fwd /\ dev.a = <<1, 2, 3, 4>>) =>
          /\ dev.out = <<1, 2, 3, 4>>
          /\ (hist.zeroed /\ hist.backs = << <<1, 1, 1, 1>> >>) =>
                dev.a_grad = <<1, 1, 1, 1>>

C1_Witness ==
    /\ IdleNow /\ hist.fwd /\ hist.zeroed
    /\ dev.a = <<1, 2, 3, 4>> /\ dev.out = <<1, 2, 3, 4>>
    /\ hist.backs = << <<1, 1, 1, 1>> >>
    /\ dev.a_grad = <<1, 1, 1, 1>>

(* C2: the backward kernel accumulates and never overwrites.  A thread     *)
(* that has run leaves a_grad[i] = its value before the dispatch +         *)
(* out_grad[i]; after k backward dispatches with no zero_grad in between,  *)
(* a_grad[i] = its initial value + the sum of the k output gradients at i. *)
C2_BackwardAccumulates ==
    /\ IdleNow =>
          \A i \in 1..N : dev.a_grad[i] = hist.base[i] + SumAt(hist.backs, i)
    /\ (launch.kind = "backward") =>
          \A i \in 1..N :
              dev.a_grad[i] = hist.base[i] + SumAt(hist.backs, i)
                                + (IF GroupRan(i) THEN dev.out_grad[i] ELSE 0)

C2_Witness ==
    /\ IdleNow /\ N >= 2
    /\ Len(hist.backs) = 2 /\ hist.backs[1] # hist.backs[2]
    /\ \E i \in 1..N : hist.base[i] # 0
    /\ \A i \in 1..N : dev.a_grad[i] = hist.base[i] + hist.backs[1][i] + hist.backs[2][i]

(* C3: with the thread count rounded up to any multiple of the work-group  *)
(* size, every element index i < n is written by exactly one thread of the *)
(* dispatch, and no thread writes at an index >= n or to another buffer.   *)
C3_PaddingIsHarmless ==
    (~IdleNow) =>
        LET dst == IF launch.kind = "forward" THEN "out" ELSE "a_grad"
            other == IF launch.kind = "forward" THEN "a_grad" ELSE "out"
        IN  /\ launch.global % LocalWorkSize = 0
            /\ launch.global >= N
            /\ \A i \in 1..launch.global :
                  /\ wr[other][i] = 0
                  /\ wr[dst][i] = (IF i <= N /\ GroupRan(i) THEN 1 ELSE 0)
            /\ Len(dev.out) = N /\ Len(dev.a_grad) = N

C3_Witness ==
    /\ launch.kind = "backward" /\ launch.pending = {}
    /\ N = 33 /\ launch.global = 96
    /\ \A i \in 1..96 : wr.a_grad[i] = (IF i <= 33 THEN 1 ELSE 0)

(* C6: no gradient leaks across steps.  After zero_grad and one backward,  *)
(* a_grad equals out_grad exactly, whatever earlier backward dispatches    *)
(* had accumulated.                                                        *)
C6_NoLeakAcrossSteps ==
    (IdleNow /\ hist.zeroed /\ Len(hist.backs) = 1) =>
        /\ dev.a_grad = dev.out_grad
        /\ dev.a_grad = hist.backs[1]

C6_Witness ==
    /\ IdleNow /\ hist.zeroed /\ Len(hist.backs) = 1
    /\ hist.total >= 2
    /\ dev.a_grad = dev.out_grad
    /\ \E i \in 1..N : dev.a_grad[i] # 0

(***************************************************************************)
(* Properties of the name machine.                                         *)
(***************************************************************************)
Kernels == {[op |-> op, dir |-> dir] : op \in ops, dir \in Directions}

(* C4: kernel names never collide.  Two kernels of the built operators     *)
(* have the same kernel_name only if they are the same kernel of the same  *)
(* operator instance; each kernel_name is the function name its own        *)
(* source_code declares; a cache keyed by kernel_name hands every operator *)
(* its own program.                                                        *)
C4_KernelNamesUnique ==
    /\ \A k1, k2 \in Kernels :
          KernelOf(k1.op, k1.dir).kernel_name = KernelOf(k2.op, k2.dir).kernel_name
              => (k1.op.out_id = k2.op.out_id /\ k1.dir = k2.dir)
    /\ \A k \in Kernels :
          KernelOf(k.op, k.dir).kernel_name = DeclaredName(KernelOf(k.op, k.dir).source_code)
    /\ (fetched # <<>>) =>
          \E op \in ops :
              /\ op.out_id = fetched.out_id
              /\ fetched.program = KernelOf(op, fetched.dir).source_code

C4_Witness ==
    /\ {o.out_id : o \in ops} = {1, 10}
    /\ DOMAIN cache = {"calc_1", "grad_1", "calc_10", "grad_10"}
    /\ fetched # <<>> /\ fetched.out_id = 10 /\ fetched.dir = "backward"
    /\ DeclaredName(fetched.program) = "grad_10"
    /\ fetched.program.stmt.op = "+="

(***************************************************************************)
(* Properties of the driver.                                               *)
(***************************************************************************)
Progressed ==
    \/ step > 0 \/ stepTrace # <<>> \/ generated > 0
    \/ pc \in {"train", "callback", "infer", "done"}

Untouched ==
    gpt = [dev |-> [params |-> 0, opt |-> 0], host |-> [params |-> 0, opt |-> 0], lr |-> 0]

(* C7: in the training callback the checkpoint file is written only after  *)
(* inference, the device sync, get_training_state and serialisation have   *)
(* succeeded, in this order, in the same invocation; when one of them      *)
(* fails the file is left as it was; a completed write leaves the whole    *)
(* current training state in the file.                                     *)
C7_WriteAfterMaterialization ==
    (pc = "callback") =>
        /\ (disk # cb.diskAtStart \/ cb.failed = "write"
              \/ \E k \in 1..Len(cb.done) : cb.done[k] = "write") =>
                /\ Len(cb.done) >= 4
                /\ SubSeq(cb.done, 1, 4) =
                       <<"infer", "sync", "get_training_state", "serialize">>
                /\ cb.ts = [layout |-> LiveLayout, params |-> gpt.dev.params,
                            opt |-> gpt.dev.opt]
                /\ cb.bytes = Serialize(cb.ts)
        /\ (cb.failed \in {"infer", "sync", "get_training_state", "serialize"}) =>
                /\ disk = cb.diskAtStart
                /\ result \in {"err", "panic"}
        /\ (Len(cb.done) = 5) =>
                /\ cb.done[5] = "write"
                /\ disk = [is_file |-> TRUE, bytes |-> cb.bytes]
                /\ Deserialize(disk.bytes).ok
                /\ Deserialize(disk.bytes).ts.params = gpt.dev.params

C7_Witness ==
    /\ pc = "callback" /\ step = 1
    /\ cb.done = <<"infer", "sync", "get_training_state", "serialize", "write">>
    /\ cb.diskAtStart.is_file /\ disk # cb.diskAtStart
    /\ disk.bytes = <<LiveLayout, 2, 2>>

Min(x, y) == IF x <= y THEN x ELSE y

Returned == bw # <<>> /\ ~bw.active /\ bw # NoCall

Quota == IF bw.limit.some THEN Min(bw.limit.n, M) ELSE M

Invoked == {bw.invoked[k] : k \in 1..Len(bw.invoked)}

Reads(j, t) == Cardinality({k \in 1..Len(graph[j].inps) : graph[j].inps[k] = t})

RECURSIVE Contributions(_, _)
Contributions(js, t) ==
    IF js = {} THEN 0
    ELSE LET j == CHOOSE x \in js : TRUE
         IN  Reads(j, t) * grads[graph[j].out] + Contributions(js \ {j}, t)

VisitedTheLastQuota ==
    /\ Len(bw.invoked) = Quota
    /\ \A k \in 1..Len(bw.invoked) : bw.invoked[k] = M - k + 1

C10_SameInputsSameTokens ==
    (runs["first"].pc = "done" /\ runs["second"].pc = "done") =>
        runs["first"].out = runs["second"].out

=============================================================================
